---- MODULE Spec2Model ----
(***************************************************************************)
(* Model of backend/app.py: a FastAPI application over two SQLAlchemy      *)
(* tables (vacancies, candidates).  Each HTTP request is a small process   *)
(* that opens a session (get_db), runs its handler statement by statement  *)
(* against the shared store and closes the session in get_db's finally.    *)
(* Requests interleave between statements; a statement that reaches the    *)
(* database (a query, the INSERT flushed by commit, a refresh) is atomic.   *)
(***************************************************************************)
EXTENDS Integers, Sequences, FiniteSets, TLC

VARIABLES
    tables,        \* names of the tables that exist in the database
    phase,         \* the process: "down", "starting" (module body run) or "serving"
    schemaError,   \* TRUE once a schema creation has raised
    vacancies,     \* rows of table "vacancies", in heap (insertion) order
    candidates,    \* rows of table "candidates", in heap (insertion) order
    vacancySeq,    \* last value drawn from the id sequence of vacancies
    candidateSeq,  \* last value drawn from the id sequence of candidates
    issued,        \* ids already returned by create_vacancy (history)
    req            \* per request slot: the request being handled

vars == <<tables, phase, schemaError, vacancies, candidates,
          vacancySeq, candidateSeq, issued, req>>

store == <<tables, phase, schemaError, vacancies, candidates,
           vacancySeq, candidateSeq, issued>>

----------------------------------------------------------------------------
(* Bounds of the model *)

NumEmails == 2        \* distinct email addresses clients submit
MaxVacancies == 2     \* vacancies created in one behaviour
MaxIdGaps == 1        \* candidate ids burnt by failed INSERTs before new creates stop
ListRows == 2         \* rows per table in the listing runs
MaxSkip == 2          \* largest explicit skip in the listing runs
MaxLimit == 2         \* largest explicit limit in the listing runs
PagingExtra == 1      \* candidates beyond the default page size in the paging runs
SessionRows == 1      \* rows per table in the session runs

(* Program constants *)
DefaultSkip == 0
DefaultLimit == 100

Requests == {"r1", "r2"}      \* two requests may be in flight at once

None == "None"                \* Python's None / SQL NULL / JSON null
Omitted == "<omitted>"        \* a field or query parameter left out

AllTables == {"vacancies", "candidates"}

(* What clients submit.  An email address is a number: addresses are only *)
(* ever compared for equality.                                             *)
Titles == {"t"}
Absent == {Omitted}
Descriptions == {Omitted, None, "d"}
Statuses == {Omitted, None, "closed"}
FullNames == {"n"}
Emails == 1..NumEmails
Phones == {Omitted, "p"}

ExistsDetail == "Candidate with this email already exists"

Min(a, b) == IF a < b THEN a ELSE b
Max(a, b) == IF a > b THEN a ELSE b

NoBody == [kind |-> "none"]

IdleRequest ==
    [op |-> "none", pc |-> "idle", body |-> NoBody, skip |-> 0, limit |-> 0,
     session |-> "none", closes |-> 0, outcome |-> "none", detail |-> "",
     rowid |-> 0, response |-> <<>>, dupAtStart |-> FALSE, baseLen |-> 0]

----------------------------------------------------------------------------
(* Schema creation *)

\* faulty variant: checkfirst=False: every table is created, existing or not
CreateWithoutCheck(existing) == AllTables

\* create_all(checkfirst=True): only the tables that do not exist are created
TablesToCreate(existing) == AllTables \ existing

\* CREATE TABLE raises when the table exists
CreateRaises(existing, creating) == (existing \cap creating) # {}

\* Base.metadata.create_all(bind=engine): the module body, run when a process
\* starts; a raise aborts the import and the process stays down
create_all ==
    /\ phase = "down"
    /\ LET creating == TablesToCreate(tables)
           raises == CreateRaises(tables, creating)
       IN  /\ schemaError' = (schemaError \/ raises)
           /\ tables' = tables \cup creating
           /\ phase' = IF raises THEN "down" ELSE "starting"
    /\ UNCHANGED <<vacancies, candidates, vacancySeq, candidateSeq, issued, req>>

\* app = FastAPI(): the imported application starts to serve
serve ==
    /\ phase = "starting"
    /\ phase' = "serving"
    /\ UNCHANGED <<tables, schemaError, vacancies, candidates,
                   vacancySeq, candidateSeq, issued, req>>

----------------------------------------------------------------------------
(* Request parsing *)

\* a query parameter with a default; given is <<>> (left out) or <<value>>
QueryParam(given, default) == IF given = <<>> THEN default ELSE given[1]

\* an Optional[str] = None field
OptionalField(given) == IF given = Omitted THEN None ELSE given

\* class VacancyCreate
VacancyCreate(body) ==
    [title |-> body.title,
     description |-> OptionalField(body.description),
     status |-> IF body.status = Omitted THEN "open" ELSE body.status]

\* class CandidateCreate
CandidateCreate(body) ==
    [full_name |-> body.full_name,
     email |-> body.email,
     phone |-> OptionalField(body.phone),
     city |-> OptionalField(body.city)]

----------------------------------------------------------------------------
(* Storage *)

\* faulty variant: the attribute is written as given, None included
StatusAsGiven(value) == value

\* Column(String, nullable=False, default="open"): the ORM leaves a None
\* attribute out of the INSERT, and the column default fills it
StatusColumn(value) == IF value = None THEN "open" ELSE value

\* class Vacancy: the row an INSERT of the object writes
VacancyRow(id, obj) ==
    [id |-> id, title |-> obj.title, description |-> obj.description,
     status |-> StatusColumn(obj.status)]

\* class Candidate: the row an INSERT of the object writes
CandidateRow(id, obj) ==
    [id |-> id, full_name |-> obj.full_name, email |-> obj.email,
     phone |-> obj.phone, city |-> obj.city]

\* faulty variant: the sequence stops advancing after its first value
StuckId(seq) == IF seq = 0 THEN 1 ELSE seq

\* Integer primary key: the next value of the table's id sequence
NextId(seq) == seq + 1

\* faulty variant: no unique index on email
NoUniqueIndex(rows, email) == FALSE

\* unique=True on Candidate.email: the INSERT is rejected when a row has the email
UniqueViolation(rows, email) == \E i \in 1..Len(rows) : rows[i].email = email

\* INSERT: the row is appended to the table
InsertRow(rows, row) == Append(rows, row)

\* faulty variant: INSERT ... ON CONFLICT (email) DO UPDATE: the stored row is replaced
ReplaceOnConflict(rows, row) ==
    [i \in 1..Len(rows) |-> IF rows[i].email = row.email THEN row ELSE rows[i]]

\* an INSERT the unique index rejects is rolled back: the table is as it was
OnConflict(rows, row) == rows

\* faulty variant: the filter compares the wrong column
FindByIdColumn(rows, email) == {i \in 1..Len(rows) : rows[i].id = email}

\* db.query(Candidate).filter(Candidate.email == email).first()
FindByEmail(rows, email) == {i \in 1..Len(rows) : rows[i].email = email}

\* faulty variant: OFFSET one row early
PageSkipOffByOne(rows, skip, limit) ==
    SubSeq(rows, Max(skip, 1), Min(Max(skip, 1) + limit - 1, Len(rows)))

\* faulty variant: LIMIT one row short
PageLimitOffByOne(rows, skip, limit) ==
    SubSeq(rows, skip + 1, Min(skip + limit - 1, Len(rows)))

\* db.query(Model).offset(skip).limit(limit).all()
Page(rows, skip, limit) == SubSeq(rows, skip + 1, Min(skip + limit, Len(rows)))

\* db.refresh(obj): the row with the object's primary key
RowById(rows, id) == SelectSeq(rows, LAMBDA row : row.id = id)

----------------------------------------------------------------------------
(* get_db *)

\* faulty variant: no finally: db.close() runs only when the handler returns
CloseOnReturnOnly(outcome) == IF outcome = "ok" THEN "finally" ELSE "done"

\* try: yield db / finally: db.close() -- where control goes when the handler ends
AfterHandler(outcome) == "finally"

\* requests are received once the module body has run and the application serves
Serving == phase = "serving"

StoredEmails == {candidates[i].email : i \in 1..Len(candidates)}

\* requests of operation op that have not reached their INSERT yet
Pending(op) == {q \in Requests : req[q].op = op /\ req[q].pc \in {"handler", "commit"}}

\* Depends(get_db) up to the yield: a session is opened and handed to the handler.
\* dupAtStart and baseLen record what the store held when the request started.
get_db_open(r, op, body, skip, limit) ==
    /\ Serving
    /\ req[r].pc = "idle"
    /\ req' = [req EXCEPT ![r] =
                 [IdleRequest EXCEPT
                    !.op = op, !.pc = "handler", !.body = body,
                    !.skip = skip, !.limit = limit, !.session = "open",
                    !.dupAtStart = IF op = "create_candidate"
                                   THEN body.email \in StoredEmails ELSE FALSE,
                    !.baseLen = IF op = "list_vacancies" THEN Len(vacancies)
                                ELSE IF op = "list_candidates" THEN Len(candidates)
                                ELSE 0]]
    /\ UNCHANGED store

\* finally: db.close()
get_db_close(r) ==
    /\ req[r].pc = "finally"
    /\ req' = [req EXCEPT ![r].session = "closed",
                          ![r].closes = req[r].closes + 1,
                          ![r].pc = "done"]
    /\ UNCHANGED store

\* the response has been sent: the slot is free for the next request
respond(r) ==
    /\ req[r].pc = "done"
    /\ req' = [req EXCEPT ![r] = IdleRequest]
    /\ UNCHANGED store

----------------------------------------------------------------------------
(* Handlers *)

health(r) ==
    /\ Serving
    /\ req[r].pc = "idle"
    /\ req' = [req EXCEPT ![r] =
                 [IdleRequest EXCEPT !.op = "health", !.pc = "done",
                                     !.outcome = "ok",
                                     !.response = <<[status |-> "ok"]>>]]
    /\ UNCHANGED store

\* GET /vacancies?skip=&limit=
receive_list_vacancies(r, skips, limits) ==
    \E s \in skips, l \in limits :
        get_db_open(r, "list_vacancies", NoBody,
                    QueryParam(s, DefaultSkip), QueryParam(l, DefaultLimit))

list_vacancies(r) ==
    /\ req[r].op = "list_vacancies"
    /\ req[r].pc = "handler"
    /\ req' = [req EXCEPT ![r].response = Page(vacancies, req[r].skip, req[r].limit),
                          ![r].outcome = "ok",
                          ![r].pc = AfterHandler("ok")]
    /\ UNCHANGED store

\* POST /vacancies
receive_create_vacancy(r, descriptions, statuses, maxRows) ==
    /\ Len(vacancies) + Cardinality(Pending("create_vacancy")) < maxRows
    /\ \E t \in Titles, d \in descriptions, s \in statuses :
          get_db_open(r, "create_vacancy",
                      [title |-> t, description |-> d, status |-> s], 0, 0)

\* db_vacancy = Vacancy(**vacancy.dict()); db.add(db_vacancy); db.commit()
create_vacancy_commit(r) ==
    /\ req[r].op = "create_vacancy"
    /\ req[r].pc = "handler"
    /\ LET id == NextId(vacancySeq)
           row == VacancyRow(id, VacancyCreate(req[r].body))
       IN  /\ vacancySeq' = id
           /\ vacancies' = InsertRow(vacancies, row)
           /\ req' = [req EXCEPT ![r].rowid = id, ![r].pc = "refresh"]
    /\ UNCHANGED <<tables, phase, schemaError, candidates, candidateSeq, issued>>

\* db.refresh(db_vacancy); return db_vacancy
create_vacancy_refresh(r) ==
    /\ req[r].op = "create_vacancy"
    /\ req[r].pc = "refresh"
    /\ req' = [req EXCEPT ![r].response = RowById(vacancies, req[r].rowid),
                          ![r].outcome = "ok",
                          ![r].pc = AfterHandler("ok")]
    /\ issued' = issued \cup {req[r].rowid}
    /\ UNCHANGED <<tables, phase, schemaError, vacancies, candidates,
                   vacancySeq, candidateSeq>>

\* GET /candidates?skip=&limit=
receive_list_candidates(r, skips, limits) ==
    \E s \in skips, l \in limits :
        get_db_open(r, "list_candidates", NoBody,
                    QueryParam(s, DefaultSkip), QueryParam(l, DefaultLimit))

list_candidates(r) ==
    /\ req[r].op = "list_candidates"
    /\ req[r].pc = "handler"
    /\ req' = [req EXCEPT ![r].response = Page(candidates, req[r].skip, req[r].limit),
                          ![r].outcome = "ok",
                          ![r].pc = AfterHandler("ok")]
    /\ UNCHANGED store

\* POST /candidates
receive_create_candidate(r, emails, phones, maxGaps) ==
    /\ candidateSeq - Len(candidates) < maxGaps
    /\ \E n \in FullNames, e \in emails, p \in phones, c \in Absent :
          get_db_open(r, "create_candidate",
                      [full_name |-> n, email |-> e, phone |-> p, city |-> c], 0, 0)

\* existing = db.query(Candidate).filter(...).first(); if existing: raise HTTPException
create_candidate_check(r) ==
    /\ req[r].op = "create_candidate"
    /\ req[r].pc = "handler"
    /\ LET existing == FindByEmail(candidates, CandidateCreate(req[r].body).email)
       IN  \/ /\ existing # {}
              /\ req' = [req EXCEPT ![r].outcome = "400",
                                    ![r].detail = ExistsDetail,
                                    ![r].pc = AfterHandler("400")]
           \/ /\ existing = {}
              /\ req' = [req EXCEPT ![r].pc = "commit"]
    /\ UNCHANGED store

\* db_candidate = Candidate(**candidate.dict()); db.add(db_candidate); db.commit()
\* The INSERT draws its id from the sequence before the unique index is checked;
\* a violation raises IntegrityError, which no handler catches.
create_candidate_commit(r) ==
    /\ req[r].op = "create_candidate"
    /\ req[r].pc = "commit"
    /\ LET id == NextId(candidateSeq)
           obj == CandidateCreate(req[r].body)
       IN  /\ candidateSeq' = id
           /\ \/ /\ UniqueViolation(candidates, obj.email)
                 /\ candidates' = OnConflict(candidates, CandidateRow(id, obj))
                 /\ req' = [req EXCEPT ![r].outcome = "500",
                                       ![r].detail = "IntegrityError",
                                       ![r].pc = AfterHandler("500")]
              \/ /\ ~UniqueViolation(candidates, obj.email)
                 /\ candidates' = InsertRow(candidates, CandidateRow(id, obj))
                 /\ req' = [req EXCEPT ![r].rowid = id, ![r].pc = "refresh"]
    /\ UNCHANGED <<tables, phase, schemaError, vacancies, vacancySeq, issued>>

\* db.refresh(db_candidate); return db_candidate
create_candidate_refresh(r) ==
    /\ req[r].op = "create_candidate"
    /\ req[r].pc = "refresh"
    /\ req' = [req EXCEPT ![r].response = RowById(candidates, req[r].rowid),
                          ![r].outcome = "ok",
                          ![r].pc = AfterHandler("ok")]
    /\ UNCHANGED store

----------------------------------------------------------------------------
(* The system *)

Init ==
    /\ tables = {}
    /\ phase = "down"
    /\ schemaError = FALSE
    /\ vacancies = <<>>
    /\ candidates = <<>>
    /\ vacancySeq = 0
    /\ candidateSeq = 0
    /\ issued = {}
    /\ req = [r \in Requests |-> IdleRequest]

\* the process stops once its requests have been answered; the database stays
shutdown ==
    /\ phase # "down"
    /\ \A r \in Requests : req[r].pc = "idle"
    /\ phase' = "down"
    /\ UNCHANGED <<tables, schemaError, vacancies, candidates,
                   vacancySeq, candidateSeq, issued, req>>

\* one statement of request r, once it has been received
VacancyStep(r) ==
    \/ list_vacancies(r)
    \/ create_vacancy_commit(r)
    \/ create_vacancy_refresh(r)

CandidateStep(r) ==
    \/ list_candidates(r)
    \/ create_candidate_check(r)
    \/ create_candidate_commit(r)
    \/ create_candidate_refresh(r)

Finish(r) == get_db_close(r) \/ respond(r)

Step(r) == VacancyStep(r) \/ CandidateStep(r) \/ Finish(r)

Process == create_all \/ serve \/ shutdown

\* query parameters: <<>> when left out, <<n>> when given
DefaultPage == {<<>>}
Skips == DefaultPage \cup {<<n>> : n \in 0..MaxSkip}
Limits == DefaultPage \cup {<<n>> : n \in 0..MaxLimit}

\* every operation, two requests at a time, listings with the default page
Next ==
    \/ Process
    \/ \E r \in Requests :
          \/ health(r)
          \/ receive_list_vacancies(r, DefaultPage, DefaultPage)
          \/ receive_create_vacancy(r, Absent, Absent, MaxVacancies)
          \/ receive_list_candidates(r, DefaultPage, DefaultPage)
          \/ receive_create_candidate(r, Emails, Absent, MaxIdGaps)
          \/ Step(r)

Spec == Init /\ [][Next]_vars

\* every operation over tables of SessionRows rows; a received request runs to
\* its end, since the server gives every handler a thread
SessionNext ==
    \/ Process
    \/ \E r \in Requests :
          \/ health(r)
          \/ receive_list_vacancies(r, DefaultPage, DefaultPage)
          \/ receive_create_vacancy(r, Absent, Absent, SessionRows)
          \/ receive_list_candidates(r, DefaultPage, DefaultPage)
          \/ receive_create_candidate(r, 1..SessionRows, Phones, MaxIdGaps)
          \/ Step(r)

SessionSpec == Init /\ [][SessionNext]_vars /\ \A r \in Requests : WF_vars(Step(r))

\* the vacancy operations, with every shape of payload
VacancyNext ==
    \/ Process
    \/ \E r \in Requests :
          \/ receive_list_vacancies(r, DefaultPage, DefaultPage)
          \/ receive_create_vacancy(r, Descriptions, Statuses, MaxVacancies)
          \/ VacancyStep(r)
          \/ Finish(r)

VacancySpec == Init /\ [][VacancyNext]_vars

\* the address stored last or the next new one, while fewer than maxRows are stored
NextEmails(maxRows) ==
    {e \in {Len(candidates), Len(candidates) + 1} : e >= 1 /\ e <= maxRows}

\* the listings with explicit skip and limit, over tables of a few rows: one
\* listing at a time, beside the creates of either request
ListNext ==
    \/ Process
    \/ receive_list_vacancies("r1", Skips, Limits)
    \/ receive_list_candidates("r1", Skips, Limits)
    \/ \E r \in Requests :
          \/ receive_create_vacancy(r, Absent, Absent, ListRows)
          \/ receive_create_candidate(r, NextEmails(ListRows), Absent, MaxIdGaps)
          \/ Step(r)

ListSpec == Init /\ [][ListNext]_vars

\* the candidate operations past the default page size, one request at a time

PagingNext ==
    \/ Process
    \/ \E r \in {"r1"} :
          \/ receive_list_candidates(r, DefaultPage, DefaultPage)
          \/ receive_create_candidate(r, NextEmails(DefaultLimit + PagingExtra), Absent, MaxIdGaps)
          \/ CandidateStep(r)
          \/ Finish(r)

PagingSpec == Init /\ [][PagingNext]_vars

----------------------------------------------------------------------------
(* Properties *)

Range(seq) == {seq[i] : i \in 1..Len(seq)}

IsPrefix(a, b) == Len(a) <= Len(b) /\ \A i \in 1..Len(a) : b[i] = a[i]

\* request r has run its handler to the end (returned or raised)
Ended(r) == req[r].pc \in {"finally", "done"}

\* request r takes a step
Acts(r) == req'[r] # req[r]

\* C1: in every reachable state, whatever the interleaving of create_candidate
\* requests, no two stored candidates have the same email
C1_UniqueEmail ==
    \A i, j \in 1..Len(candidates) :
        i # j => candidates[i].email # candidates[j].email

\* two requests raced on one email: one is stored, the other was rejected at commit
C1_Witness ==
    \E r \in Requests :
        /\ req[r].op = "create_candidate"
        /\ req[r].outcome = "500"
        /\ req[r].body.email \in StoredEmails

\* C2: a create_candidate whose email was stored when it started fails with the
\* client error "Candidate with this email already exists", attempts no insert
\* and leaves the stored candidates as they were
C2_DuplicateRejected ==
    [][\A r \in Requests :
          (req[r].op = "create_candidate" /\ req[r].dupAtStart /\ Acts(r)) =>
              /\ candidates' = candidates
              /\ candidateSeq' = candidateSeq
              /\ req[r].pc = "handler" =>
                    /\ req'[r].pc = "finally"
                    /\ req'[r].outcome = "400"
                    /\ req'[r].detail = ExistsDetail]_vars

\* a create for a stored email has been refused
C2_Witness ==
    \E r \in Requests :
        /\ req[r].op = "create_candidate"
        /\ req[r].dupAtStart
        /\ req[r].pc = "done"
        /\ req[r].outcome = "400"
        /\ Len(candidates) = NumEmails

\* C9 (as claimed): every create_candidate that ends without inserting ends with
\* the client error "Candidate with this email already exists"
C9_AlwaysClientError ==
    \A r \in Requests :
        (req[r].op = "create_candidate" /\ Ended(r) /\ req[r].outcome # "ok") =>
            (req[r].outcome = "400" /\ req[r].detail = ExistsDetail)

\* C7: stored records are append-only: no step removes a stored vacancy or
\* candidate or changes any of its fields
C7_AppendOnly ==
    [][IsPrefix(vacancies, vacancies') /\ IsPrefix(candidates, candidates')]_vars

\* rows of both tables are stored, and a create has failed at commit beside them
C7_Witness ==
    /\ Len(vacancies) = MaxVacancies
    /\ Len(candidates) > 0
    /\ \E r \in Requests : req[r].outcome = "500" /\ req[r].pc = "done"

\* C8: schema creation run when the tables already exist raises nothing and
\* leaves the tables and every stored row as they were
C8_CreateAllIdempotent ==
    [][(phase = "down" /\ tables = AllTables) =>
          /\ phase' = "starting"
          /\ ~schemaError'
          /\ tables' = tables
          /\ vacancies' = vacancies
          /\ candidates' = candidates]_vars

\* the module body has just run again over a database that holds rows
C8_Witness ==
    /\ phase = "starting"
    /\ ~schemaError
    /\ Len(vacancies) > 0
    /\ Len(candidates) > 0

\* C4: each create_vacancy returns one record whose id is a positive integer
\* that no earlier create_vacancy returned
C4_FreshIds ==
    [][\A r \in Requests :
          (req[r].op = "create_vacancy" /\ req[r].pc = "refresh" /\ Acts(r)) =>
              /\ req'[r].outcome = "ok"
              /\ Len(req'[r].response) = 1
              /\ req'[r].response[1].id > 0
              /\ req'[r].response[1].id \notin issued]_vars

\* as many distinct ids have been returned as vacancies may be created
C4_Witness == Cardinality(issued) = MaxVacancies

\* the status the client put in the body of request r
Submitted(r) == req[r].body.status

\* C5: every shape-valid create_vacancy succeeds and returns a record whose
\* status is "open" when status was omitted and the submitted text when text
\* was submitted; no stored or returned status is null
C5_StatusDefault ==
    /\ \A i \in 1..Len(vacancies) : vacancies[i].status # None
    /\ \A r \in Requests :
          (req[r].op = "create_vacancy" /\ Ended(r)) =>
              /\ req[r].outcome = "ok"
              /\ Len(req[r].response) = 1
              /\ req[r].response[1].status # None
              /\ Submitted(r) = Omitted => req[r].response[1].status = "open"
              /\ Submitted(r) \notin {Omitted, None} =>
                    req[r].response[1].status = Submitted(r)

\* creates with status omitted, null and text have all been answered
C5_Witness ==
    /\ \E r \in Requests :
          /\ req[r].op = "create_vacancy" /\ Ended(r)
          /\ Submitted(r) = None
          /\ req[r].body.description = None
          /\ req[r].response[1].status = "open"
    /\ \E i \in 1..Len(vacancies) :
          vacancies[i].status = "closed" /\ vacancies[i].description = "d"

\* the table request r lists
Listed(r) == IF req[r].op = "list_vacancies" THEN vacancies ELSE candidates

\* C6: over a table of n rows, a listing with skip >= 0 and limit >= 0 returns
\* exactly min(limit, max(0, n - skip)) records: the rows at positions
\* skip+1 .. skip+limit of the insertion order
C6_Page ==
    [][\A r \in Requests :
          (req[r].op \in {"list_vacancies", "list_candidates"}
             /\ req[r].pc = "handler" /\ Acts(r)) =>
              LET rows == Listed(r)
                  k == Min(req[r].limit, Max(0, Len(rows) - req[r].skip))
                  out == req'[r].response
              IN  /\ req'[r].outcome = "ok"
                  /\ Len(out) = k
                  /\ \A j \in 1..k : out[j] = rows[req[r].skip + j]]_vars

\* GET /vacancies?skip=0&limit=1 after two vacancies were created returned one
\* record, and a listing of candidates past the first row returned the second
C6_Witness ==
    /\ \E r \in Requests :
          /\ req[r].op = "list_vacancies" /\ req[r].pc = "finally"
          /\ req[r].baseLen = 2 /\ req[r].skip = 0 /\ req[r].limit = 1
          /\ Len(req[r].response) = 1
    /\ Len(candidates) = ListRows

\* request r is a listing of candidates with the default skip and limit that
\* has run its query
DefaultListing(r) ==
    /\ req[r].op = "list_candidates"
    /\ Ended(r)
    /\ req[r].skip = DefaultSkip
    /\ req[r].limit = DefaultLimit

\* a create_candidate whose email was not in storage succeeds
FreshCreateSucceeds ==
    \A r \in Requests :
        (req[r].op = "create_candidate" /\ Ended(r) /\ req[r].outcome # "ok") =>
            req[r].body.email \in StoredEmails

\* C3 (as claimed): a create_candidate whose email is not in storage succeeds,
\* and a default listing issued afterwards, after any number of creates,
\* includes the record
C3_ListIncludesCreated ==
    /\ FreshCreateSucceeds
    /\ \A r \in Requests :
          DefaultListing(r) =>
              \A i \in 1..req[r].baseLen : candidates[i] \in Range(req[r].response)

\* C3 (amended): a create_candidate whose email is not in storage when its
\* INSERT is made succeeds, and a default listing issued afterwards includes
\* the record when it is among the first DefaultLimit stored candidates
C3_ListIncludesFirstPage ==
    /\ FreshCreateSucceeds
    /\ \A r \in Requests :
          DefaultListing(r) =>
              \A i \in 1..Min(req[r].baseLen, DefaultLimit) :
                  candidates[i] \in Range(req[r].response)

\* a default listing issued over exactly DefaultLimit candidates returned them all
C3_Witness ==
    \E r \in Requests :
        /\ DefaultListing(r)
        /\ req[r].baseLen = DefaultLimit
        /\ Len(req[r].response) = DefaultLimit
        /\ candidates[DefaultLimit] \in Range(req[r].response)

\* C10: every request that opened a session closes it exactly once, whether its
\* handler returned or raised, and eventually; when every request has been
\* answered no session is open
C10_SessionReleased ==
    /\ [](\A r \in Requests :
            /\ req[r].closes <= 1
            /\ req[r].pc = "idle" => req[r].session = "none"
            /\ (req[r].pc = "done" /\ req[r].op # "health") =>
                  (req[r].session = "closed" /\ req[r].closes = 1)
            /\ req[r].pc \in {"handler", "commit", "refresh", "finally"} =>
                  (req[r].session = "open" /\ req[r].closes = 0))
    /\ \A r \in Requests :
          (req[r].session = "open") ~> (req[r].session = "closed")

\* one request raised at commit, the other raised the HTTPException, and both
\* have closed their sessions
C10_Witness ==
    /\ \E r \in Requests :
          req[r].pc = "done" /\ req[r].outcome = "500" /\ req[r].closes = 1
    /\ \E r \in Requests :
          req[r].pc = "done" /\ req[r].outcome = "400" /\ req[r].closes = 1

====
